---- MODULE Spec2Model ----
(***************************************************************************)
(* Synchronisation of Anki feedback into the local card store              *)
(* (gpt_to_anki: anki_connect.py, anki_sync.py, database.py).              *)
(*                                                                         *)
(* The store is two SQLite tables reached through SQLAlchemy sessions; the *)
(* external source is the AnkiConnect endpoint.  Every await of the code   *)
(* is a step boundary: between two steps of one call, steps of other calls *)
(* may run.  The column updated_at (a server clock value) is not modelled. *)
(***************************************************************************)
EXTENDS Integers, Sequences, FiniteSets

(* ------------------------------ bounds --------------------------------- *)

\* Cards ever inserted into the cards table.
MaxCards == 2

\* Length of the list handed to a direct asave_anki_feedback call.
MaxBatch == 2

Procs == {"p1", "p2"}

Contexts == {"doc1", "doc2"}

CardIds == 1..MaxCards

(* ------------------------- AnkiConnectDeck ----------------------------- *)

\* AnkiConnectDeck.__init__: the deck's configuration.
DeckName == "Deck"

DeckModelName == "Basic"

field_map == [question |-> "Question", answer |-> "Answer", topic |-> "Topic"]

\* The two ways _post fails: requests.post / raise_for_status raise
\* ("transport"), or the payload carries an error field ("rejected").
FaultKinds == {"transport", "rejected"}

Raised(kind) == [kind |-> "raise", error |-> kind]

Returned(v) == [kind |-> "return", value |-> v]

\* Variant: a _post that returns the result without looking at the error
\* field.
post_response_ignoring_error(response) ==
    IF response.status >= 400 THEN Raised("transport")
    ELSE Returned(response.payload.result)

\* _post on one HTTP response: raise_for_status raises for a 4xx or 5xx
\* status; else a truthy error field of the payload raises a RuntimeError
\* whose message carries it (a payload without the key stands for a null
\* error); else the result comes back.
post_response(response) ==
    IF response.status >= 400 THEN Raised("transport")
    ELSE IF "error" \in DOMAIN response.payload /\ response.payload.error # ""
    THEN [kind |-> "raise", error |-> "rejected",
          message |-> "AnkiConnect error: " \o response.payload.error]
    ELSE Returned(response.payload.result)

\* _post, the n-th request of one lookup: the reply r says which request of
\* the lookup (if any) fails and how; otherwise the result comes back.
\* `result or []` of the callers is part of the reply's lists (null is <<>>).
post(r, n, result) ==
    IF r.failAt = n THEN Raised(r.failKind) ELSE Returned(result)

\* Variant: a get_field that looks the key up without the field map.
get_field_unmapped(fields, key) ==
    IF key \in DOMAIN fields /\ "value" \in DOMAIN fields[key]
    THEN fields[key].value
    ELSE ""

\* get_field of _fetch_single_feedback.
get_field(fields, key) ==
    LET name == IF key \in DOMAIN field_map THEN field_map[key] ELSE key
    IN  IF name \in DOMAIN fields /\ "value" \in DOMAIN fields[name]
        THEN fields[name].value
        ELSE ""

\* The decimal strings int() accepts, the i-th being the numeral of i - 1.
Numerals == <<"0", "1", "2", "3", "4", "5", "6", "7">>

\* int(s) for a string: the number of a numeral, ValueError otherwise.
int(s) ==
    IF \E i \in DOMAIN Numerals : Numerals[i] = s
    THEN [ok |-> TRUE, value |-> (CHOOSE i \in DOMAIN Numerals : Numerals[i] = s) - 1]
    ELSE [ok |-> FALSE, value |-> 0]

\* Variant: no except branch for the flag, an unparseable one counting as 7.
flag_value_unparsed_as_seven(card) ==
    IF "flags" \notin DOMAIN card THEN 0
    ELSE IF "int" \in DOMAIN card.flags THEN card.flags.int
    ELSE IF int(card.flags.str).ok THEN int(card.flags.str).value
    ELSE 7

\* int(card.get("flags", 0) or 0) with its except branch: a flags value is
\* [int |-> n] or [str |-> s]; a string int() rejects gives 0, and so does
\* a card without flags.
flag_value(card) ==
    IF "flags" \notin DOMAIN card THEN 0
    ELSE IF "int" \in DOMAIN card.flags THEN card.flags.int
    ELSE IF int(card.flags.str).ok THEN int(card.flags.str).value
    ELSE 0

card_suspended(card) ==
    \/ ("suspended" \in DOMAIN card /\ card.suspended)
    \/ ("queue" \in DOMAIN card /\ card.queue = -1)

Max(a, b) == IF a >= b THEN a ELSE b

\* Variant: a loop keeping the flag of the card it saw last.
RECURSIVE cards_loop_last_flag(_, _, _, _)
cards_loop_last_flag(cs, i, suspended, flag) ==
    IF i > Len(cs) THEN [suspended |-> suspended, flag |-> flag]
    ELSE cards_loop_last_flag(cs, i + 1,
                              suspended \/ card_suspended(cs[i]),
                              flag_value(cs[i]))

\* Variant: a loop whose flag starts from the first card's flag, not from 0.
RECURSIVE cards_loop_from_first_flag(_, _, _, _)
cards_loop_from_first_flag(cs, i, suspended, flag) ==
    IF i > Len(cs) THEN [suspended |-> suspended, flag |-> flag]
    ELSE cards_loop_from_first_flag(cs, i + 1,
                                    suspended \/ card_suspended(cs[i]),
                                    IF i = 1 THEN flag_value(cs[i])
                                    ELSE Max(flag, flag_value(cs[i])))

\* The loop over cards of _fetch_single_feedback, from card i on.
RECURSIVE cards_loop(_, _, _, _)
cards_loop(cs, i, suspended, flag) ==
    IF i > Len(cs) THEN [suspended |-> suspended, flag |-> flag]
    ELSE cards_loop(cs, i + 1,
                    suspended \/ card_suspended(cs[i]),
                    Max(flag, flag_value(cs[i])))

\* Variant: a feedback keyed by the note's id instead of the requested id.
AnkiNoteFeedback_keyed_by_note(db_id, note, state) ==
    [database_id  |-> note.noteId,
     anki_note_id |-> note.noteId,
     deck_name    |-> DeckName,
     model_name   |-> IF "modelName" \in DOMAIN note THEN note.modelName
                      ELSE DeckModelName,
     question     |-> get_field(note.fields, "question"),
     answer       |-> get_field(note.fields, "answer"),
     topic        |-> get_field(note.fields, "topic"),
     suspended    |-> state.suspended,
     flag         |-> state.flag]

\* AnkiNoteFeedback(id=db_id, ...) at the end of _fetch_single_feedback.
AnkiNoteFeedback(db_id, note, state) ==
    [database_id  |-> db_id,
     anki_note_id |-> note.noteId,
     deck_name    |-> DeckName,
     model_name   |-> IF "modelName" \in DOMAIN note THEN note.modelName
                      ELSE DeckModelName,
     question     |-> get_field(note.fields, "question"),
     answer       |-> get_field(note.fields, "answer"),
     topic        |-> get_field(note.fields, "topic"),
     suspended    |-> state.suspended,
     flag         |-> state.flag]

NoFeedback == [kind |-> "none"]

\* Variant: a lookup that requests cardsInfo whatever findCards returned.
fetch_single_feedback_always_cards_info(db_id, r) ==
    LET p1 == post(r, 1, r.noteIds)
        p2 == post(r, 2, r.notes)
        p3 == post(r, 3, r.cardIds)
        p4 == post(r, 4, r.cards)
    IN  IF p1.kind = "raise" THEN p1
        ELSE IF p1.value = <<>> THEN NoFeedback
        ELSE IF p2.kind = "raise" THEN p2
        ELSE IF p2.value = <<>> THEN NoFeedback
        ELSE IF p3.kind = "raise" THEN p3
        ELSE IF p4.kind = "raise" THEN p4
        ELSE Returned(AnkiNoteFeedback(db_id, p2.value[1],
                                       cards_loop(p4.value, 1, FALSE, 0)))

\* _fetch_single_feedback: findNotes, notesInfo, findCards, cardsInfo in
\* this order, each through _post; the outcome is a feedback, None or the
\* exception of the first failing request.
fetch_single_feedback(db_id, r) ==
    LET p1 == post(r, 1, r.noteIds)
        p2 == post(r, 2, r.notes)
        p3 == post(r, 3, r.cardIds)
        p4 == post(r, 4, r.cards)
    IN  IF p1.kind = "raise" THEN p1
        ELSE IF p1.value = <<>> THEN NoFeedback
        ELSE IF p2.kind = "raise" THEN p2
        ELSE IF p2.value = <<>> THEN NoFeedback
        ELSE IF p3.kind = "raise" THEN p3
        ELSE IF p3.value = <<>>
             THEN Returned(AnkiNoteFeedback(db_id, p2.value[1],
                                            [suspended |-> FALSE, flag |-> 0]))
        ELSE IF p4.kind = "raise" THEN p4
        ELSE Returned(AnkiNoteFeedback(db_id, p2.value[1],
                                       cards_loop(p4.value, 1, FALSE, 0)))

\* [r for r in results if r is not None], in the order of the requested ids.
RECURSIVE not_none(_, _)
not_none(results, i) ==
    IF i > Len(results) THEN <<>>
    ELSE IF results[i].kind = "return"
         THEN <<results[i].value>> \o not_none(results, i + 1)
         ELSE not_none(results, i + 1)

\* asyncio.gather without return_exceptions: the first exception a task
\* raises is raised by the await (`first` is the position of the task that
\* raised first); with no exception the results come back in task order.
Raising(results) == {i \in 1..Len(results) : results[i].kind = "raise"}

\* Variant: a gather that returns the first result only.
gather_first_result(results, first) ==
    IF Raising(results) # {} THEN results[first]
    ELSE Returned(IF not_none(results, 1) = <<>> THEN <<>>
                  ELSE <<Head(not_none(results, 1))>>)

\* Variant: a gather that drops the tasks' exceptions with the None results.
gather_dropping_exceptions(results, first) == Returned(not_none(results, 1))

gather(results, first) ==
    IF Raising(results) # {} THEN results[first]
    ELSE Returned(not_none(results, 1))

\* Variant: every task looks up the first id.
tasks_of_first_id(database_ids) ==
    [i \in 1..Len(database_ids) |-> database_ids[1]]

\* tasks = [asyncio.to_thread(self._fetch_single_feedback, db_id) for db_id
\* in database_ids]: the argument of each task's lookup, in task order.
tasks(database_ids) == [i \in 1..Len(database_ids) |-> database_ids[i]]

\* The task whose exception the gather raises, when the tasks complete in
\* the order `completed` (a permutation of the task positions): the raising
\* task that completes first; 1 when no task raises.
first_raised(results, completed) ==
    IF Raising(results) = {} THEN 1
    ELSE completed[CHOOSE k \in DOMAIN completed :
                      /\ completed[k] \in Raising(results)
                      /\ \A j \in 1..(k - 1) :
                            completed[j] \notin Raising(results)]

(* ------------------- the remote's replies (inputs) --------------------- *)

NoteA ==
    [noteId |-> 101, modelName |-> "Basic",
     fields |-> [Question |-> [value |-> "Q1"], Answer |-> [value |-> "A1"],
                 Topic |-> [value |-> "T1"]]]

NoteB ==
    [noteId |-> 102, modelName |-> "Cloze",
     fields |-> [Question |-> [value |-> "Q2"], Answer |-> [value |-> "A2"],
                 Topic |-> [value |-> "T2"]]]

CardsB ==
    << [suspended |-> FALSE, queue |-> 0, flags |-> [int |-> 0]],
       [suspended |-> TRUE, queue |-> -1, flags |-> [int |-> 3]] >>

Reply(failAt, failKind, notes, cards) ==
    [failAt |-> failAt, failKind |-> failKind,
     noteIds |-> [i \in 1..Len(notes) |-> notes[i].noteId], notes |-> notes,
     cardIds |-> [i \in 1..Len(cards) |-> 200 + i], cards |-> cards]

\* What the remote may answer to one lookup: no note, a note without cards,
\* a note with cards, or a failing first request.
GoodReplies ==
    { Reply(0, "transport", <<>>, <<>>),
      Reply(0, "transport", <<NoteA>>, <<>>),
      Reply(0, "transport", <<NoteB>>, CardsB) }

Replies == GoodReplies \cup {Reply(1, k, <<NoteA>>, <<>>) : k \in FaultKinds}

(* ----------------------------- CardDatabase ---------------------------- *)

VARIABLES
    cards,      \* table cards: the committed rows
    feedback,   \* table anki_feedback: the committed rows
    initialized, \* CardDatabase._initialized
    proc        \* per caller: the frame of the call it is in

vars == <<cards, feedback, initialized, proc>>

\* The columns asave_anki_feedback writes besides the key database_id.
Columns ==
    {"anki_note_id", "deck_name", "model_name", "question", "answer",
     "topic", "suspended", "flag"}

MaxOf(S) == CHOOSE m \in S : \A x \in S : x <= m

\* id = Column(Integer, primary_key=True, autoincrement=True) on SQLite: an
\* INTEGER PRIMARY KEY without the AUTOINCREMENT keyword, so a new row gets
\* the largest id in the table plus one.
next_id(table) == IF table = {} THEN 1 ELSE MaxOf({r.id : r \in table}) + 1

\* The elements of a set of rows in ascending id order (ORDER BY id).
RECURSIVE order_by_id(_)
order_by_id(rows) ==
    IF rows = {} THEN <<>>
    ELSE LET r == CHOOSE x \in rows : \A y \in rows : x.id <= y.id
         IN  <<r>> \o order_by_id(rows \ {r})

\* A set of ids as a list, ascending.
RECURSIVE order_ids(_)
order_ids(ids) ==
    IF ids = {} THEN <<>>
    ELSE LET m == CHOOSE x \in ids : \A y \in ids : x <= y
         IN  <<m>> \o order_ids(ids \ {m})

\* Card.model_validate(card_orm) followed by card.context = context: the
\* columns of the row as fields, database_id read through its alias id.
Card(row, context) ==
    [f \in (DOMAIN row \ {"id"}) \cup {"database_id"} |->
        IF f = "database_id" THEN row.id
        ELSE IF f = "context" THEN context
        ELSE row[f]]

\* Variant: a load without the WHERE on the context.
aload_cards_any_context(context, ok) ==
    IF ok
    THEN LET rows == order_by_id(cards)
         IN  [i \in 1..Len(rows) |-> Card(rows[i], context)]
    ELSE <<>>

\* Variant: a load without the ORDER BY, giving the rows newest first.
aload_cards_newest_first(context, ok) ==
    IF ok
    THEN LET rows == order_by_id({r \in cards : r.context = context})
         IN  [i \in 1..Len(rows) |-> Card(rows[Len(rows) + 1 - i], context)]
    ELSE <<>>

\* aload_cards: the cards of a context in id order, as Card objects; []
\* when the read fails.
aload_cards(context, ok) ==
    IF ok
    THEN LET rows == order_by_id({r \in cards : r.context = context})
         IN  [i \in 1..Len(rows) |-> Card(rows[i], context)]
    ELSE <<>>

\* The defaults of the fields of Card that have one.
CardDefaults ==
    [topic |-> "", context |-> "", evaluation |-> "not_evaluated"]

\* The columns of the table cards besides id.
CardColumns == {"question", "answer", "topic", "context", "evaluation"}

\* card.model_dump(exclude_defaults=True, exclude={"database_id"}): the
\* fields whose value is not the field's default.
model_dump(card) ==
    [f \in {c \in CardColumns :
               c \notin DOMAIN CardDefaults \/ card[c] # CardDefaults[c]} |->
        card[f]]

\* The update branch of asave_cards: setattr for every dumped field.
set_attrs(row, data) ==
    [c \in DOMAIN row |-> IF c \in DOMAIN data THEN data[c] ELSE row[c]]

\* CardRecord(**data) as the INSERT stores it: evaluation has a column
\* default; topic and context have none and are NOT NULL, so that a row
\* built without them is refused (ok false).
CardRecord(id, data) ==
    [ok  |-> {"topic", "context"} \subseteq DOMAIN data,
     row |-> [c \in CardColumns \cup {"id"} |->
                 IF c = "id" THEN id
                 ELSE IF c \in DOMAIN data THEN data[c]
                 ELSE IF c = "evaluation" THEN "not_evaluated"
                 ELSE "NULL"]]

\* The loop of asave_cards over the cards from card i on, inside one
\* transaction: `existing` are the ids the SELECT found, tx the table as
\* the transaction sees it, ids the ids of card_records so far.
RECURSIVE save_loop(_, _, _, _, _)
save_loop(cards_list, i, existing, tx, ids) ==
    IF i > Len(cards_list) THEN [ok |-> TRUE, table |-> tx, ids |-> ids]
    ELSE LET card == cards_list[i]
             data == model_dump(card)
         IN  IF "database_id" \in DOMAIN card /\ card.database_id \in existing
             THEN LET row == CHOOSE r \in tx : r.id = card.database_id
                  IN  save_loop(cards_list, i + 1, existing,
                                (tx \ {row}) \cup {set_attrs(row, data)},
                                Append(ids, row.id))
             ELSE LET new == CardRecord(next_id(tx), data)
                  IN  IF ~new.ok
                      THEN [ok |-> FALSE, table |-> tx, ids |-> ids]
                      ELSE save_loop(cards_list, i + 1, existing,
                                     tx \cup {new.row},
                                     Append(ids, new.row.id))

\* updated_cards of asave_cards: card i copied, with the id of record i.
updated_cards(cards_list, ids) ==
    [i \in 1..Len(cards_list) |->
        [f \in DOMAIN cards_list[i] \cup {"database_id"} |->
            IF f = "database_id" THEN ids[i] ELSE cards_list[i][f]]]

\* asave_cards, one session: the SELECT of the rows whose id some card
\* carries, the loop, one commit.  A refused INSERT (IntegrityError) or a
\* failure of the storage layer (`ok` false) rolls everything back and is
\* raised; else the cards come back with the ids of their records.
asave_cards_session(table, cards_list, ok) ==
    LET carried == {cards_list[i].database_id :
                       i \in {j \in DOMAIN cards_list :
                                 "database_id" \in DOMAIN cards_list[j]}}
        existing == {r.id : r \in {x \in table : x.id \in carried}}
        done == save_loop(cards_list, 1, existing, table, <<>>)
    IN  IF ~done.ok
        THEN [ok |-> FALSE, error |-> "integrity", table |-> table, ret |-> <<>>]
        ELSE IF ~ok
        THEN [ok |-> FALSE, error |-> "storage", table |-> table, ret |-> <<>>]
        ELSE [ok |-> TRUE, error |-> "", table |-> done.table,
              ret |-> updated_cards(cards_list, done.ids)]

\* AnkiFeedbackRecord(database_id=..., ...) of the insert branch.
AnkiFeedbackRecord(fb) == fb

\* The attribute assignments of the update branch: every column of fb.
assigned(fb) == [c \in Columns |-> fb[c]]

\* The for-loop of asave_anki_feedback over a fresh session: `existing`
\* maps the database_ids found by the SELECT to their rows and is not
\* extended by the loop; the session collects the rows added and, per
\* existing row (by primary key), the attributes last assigned.
RECURSIVE upsert_loop(_, _, _, _)
upsert_loop(feedback_list, i, existing, session) ==
    IF i > Len(feedback_list) THEN session
    ELSE LET fb == feedback_list[i]
         IN  IF fb.database_id \notin DOMAIN existing
             THEN upsert_loop(feedback_list, i + 1, existing,
                      [session EXCEPT
                          !.added = Append(@, AnkiFeedbackRecord(fb))])
             ELSE LET pk == existing[fb.database_id].id
                  IN  upsert_loop(feedback_list, i + 1, existing,
                          [session EXCEPT
                              !.dirty = [k \in DOMAIN @ \cup {pk} |->
                                            IF k = pk THEN assigned(fb)
                                            ELSE @[k]]])

\* Variant: a SELECT that finds no existing row.
select_existing_nothing(table, ids) == <<>>

\* SELECT ... WHERE database_id IN (ids): the rows found, by database_id.
select_existing(table, ids) ==
    [d \in {r.database_id : r \in {x \in table : x.database_id \in ids}} |->
        CHOOSE r \in table : r.database_id = d]

\* asave_anki_feedback from `async with self.async_session()` to the end of
\* its loop: the SELECT of the existing rows, then the loop.
open_session(table, feedback_list) ==
    LET ids == {feedback_list[i].database_id : i \in 1..Len(feedback_list)}
        existing == select_existing(table, ids)
        loaded == [pk \in {existing[d].id : d \in DOMAIN existing} |->
                      CHOOSE r \in table : r.id = pk]
    IN  upsert_loop(feedback_list, 1, existing,
                    [loaded |-> loaded, added |-> <<>>, dirty |-> <<>>])

\* Variant: an update branch that does not assign row.flag.
update_row_without_flag(row, loaded, attrs) ==
    [c \in DOMAIN row |->
        IF c \in Columns \ {"flag"} /\ attrs[c] # loaded[c] THEN attrs[c]
        ELSE row[c]]

\* The UPDATE the flush emits for an existing row: the unit of work writes
\* the columns whose assigned value differs from the value loaded by the
\* SELECT (`loaded`), onto the row as it is in the table now.
update_row(row, loaded, attrs) ==
    [c \in DOMAIN row |->
        IF c \in Columns /\ attrs[c] # loaded[c] THEN attrs[c] ELSE row[c]]

\* Variant: the column declared without unique=True.
unique_ok_without_constraint(table, database_id) == TRUE

\* database_id = Column(..., unique=True): an INSERT is refused when the
\* table already holds a row of that database_id.
unique_ok(table, database_id) == \A r \in table : r.database_id # database_id

\* The INSERTs of the flush, in the order the rows were added; ok is FALSE
\* when an INSERT is refused (IntegrityError), with the table as it was in
\* the transaction at that point.
RECURSIVE insert_rows(_, _, _)
insert_rows(table, added, i) ==
    IF i > Len(added) THEN [ok |-> TRUE, table |-> table]
    ELSE IF ~unique_ok(table, added[i].database_id)
         THEN [ok |-> FALSE, table |-> table]
         ELSE insert_rows(
                  table \cup {[c \in DOMAIN added[i] \cup {"id"} |->
                                  IF c = "id" THEN next_id(table)
                                  ELSE added[i][c]]},
                  added, i + 1)

\* Variant: statements committed one by one, so that a failure keeps what
\* was written before it.
rollback_keeping_partial(before, partial) == partial

\* What a failed commit leaves in the table: the transaction is rolled
\* back, so the table is the one the commit started from.
rollback(before, partial) == before

\* Variant: a commit that keeps, of the rows the table held, only those the
\* session updated.
commit_dropping_untouched(table, session, ok) ==
    LET updated == {update_row(r, session.loaded[r.id], session.dirty[r.id]) :
                       r \in {x \in table : x.id \in DOMAIN session.dirty}}
        done == insert_rows(updated, session.added, 1)
    IN  IF ~done.ok
        THEN [ok |-> FALSE, error |-> "integrity",
              table |-> rollback(table, done.table)]
        ELSE IF ~ok
        THEN [ok |-> FALSE, error |-> "storage",
              table |-> rollback(table, done.table)]
        ELSE [ok |-> TRUE, error |-> "", table |-> done.table]

\* session.commit(): one transaction holding the flush (UPDATEs, then
\* INSERTs) and the COMMIT.  A refused INSERT (IntegrityError) or a failure
\* of the storage layer (`ok` false: the COMMIT fails) rolls all of it back.
commit(table, session, ok) ==
    LET updated == {IF r.id \in DOMAIN session.dirty
                    THEN update_row(r, session.loaded[r.id],
                                    session.dirty[r.id])
                    ELSE r : r \in table}
        done == insert_rows(updated, session.added, 1)
    IN  IF ~done.ok
        THEN [ok |-> FALSE, error |-> "integrity",
              table |-> rollback(table, done.table)]
        ELSE IF ~ok
        THEN [ok |-> FALSE, error |-> "storage",
              table |-> rollback(table, done.table)]
        ELSE [ok |-> TRUE, error |-> "", table |-> done.table]

\* ainit_database: nothing when the flag is set; else create_all, which sets
\* the flag, or fails (`ok` false) and raises with the flag as it was.
ainit_database(ok) ==
    IF initialized \/ ok THEN [ok |-> TRUE, initialized |-> TRUE]
    ELSE [ok |-> FALSE, initialized |-> FALSE]

\* AnkiNoteFeedback.model_validate(row), from_attributes with
\* populate_by_name: the field database_id has the alias id, the alias is
\* looked up first, and the row has an attribute id (its primary key).
model_validate(row) ==
    [c \in Columns \cup {"database_id"} |->
        IF c = "database_id" THEN row.id ELSE row[c]]

(* ------------------------------ callers -------------------------------- *)

NoSession == [loaded |-> <<>>, added |-> <<>>, dirty |-> <<>>]

\* A caller that is in no call.  cards is the list handed to asave_cards,
\* loaded is what aload_cards gave the running
\* sync, replies what the remote answered to its lookups; fetch_calls and
\* save_calls count the calls the running sync made to the deck and to
\* asave_anki_feedback; fault tells that the storage layer failed during a
\* direct call of the card store; lookups lists the ids a direct call of the
\* deck looked up, in the order the lookups completed.
IdleFrame ==
    [pc |-> "idle", op |-> "none", context |-> "", cards |-> <<>>,
     loaded |-> <<>>,
     database_ids |-> <<>>, replies |-> <<>>,
     results |-> <<>>, feedback_list |-> <<>>, session |-> NoSession,
     ret |-> [kind |-> "none"], fault |-> FALSE, lookups |-> <<>>,
     fetch_calls |-> 0, save_calls |-> 0]

Finish(frame, ret) == [frame EXCEPT !.pc = "done", !.ret = ret]

\* Feedback objects a caller hands to asave_anki_feedback directly.
SampleFeedback(id, v) ==
    IF v = "A"
    THEN [database_id |-> id, anki_note_id |-> 101, deck_name |-> "Deck",
          model_name |-> "Basic", question |-> "Q1", answer |-> "A1",
          topic |-> "T1", suspended |-> FALSE, flag |-> 0]
    ELSE [database_id |-> id, anki_note_id |-> 102, deck_name |-> "Deck2",
          model_name |-> "Cloze", question |-> "Q2", answer |-> "A2",
          topic |-> "T2", suspended |-> TRUE, flag |-> 3]

\* The database_ids direct callers name: two ids give lists with and without
\* a repeated id.
SampleIds == {1, 2}

Samples == {SampleFeedback(id, v) : id \in SampleIds, v \in {"A", "B"}}

Batches == UNION {[1..n -> Samples] : n \in 0..MaxBatch}

Orders(S) ==
    {s \in [1..Cardinality(S) -> S] : \A i, j \in DOMAIN s : s[i] = s[j] => i = j}

Init ==
    /\ cards = {}
    /\ feedback = {}
    /\ initialized = FALSE
    /\ proc = [p \in Procs |-> IdleFrame]

\* A card as the generation flow makes it for a context: no database_id.
NewCard(context) ==
    [question |-> "Q1", answer |-> "A1", topic |-> "T1", context |-> context,
     evaluation |-> "not_evaluated"]

\* asave_cards for one card without database_id: the insert branch.
asave_cards(context) ==
    /\ Cardinality(cards) < MaxCards
    /\ cards' = asave_cards_session(cards, <<NewCard(context)>>, TRUE).table
    /\ UNCHANGED <<feedback, proc, initialized>>

\* Variant: the ids collected last card first.
RECURSIVE with_database_id_reversed(_, _)
with_database_id_reversed(loaded, i) ==
    IF i > Len(loaded) THEN <<>>
    ELSE IF "database_id" \in DOMAIN loaded[i]
         THEN with_database_id_reversed(loaded, i + 1) \o <<loaded[i].database_id>>
         ELSE with_database_id_reversed(loaded, i + 1)

\* [c.database_id for c in cards if c.database_id is not None], from card i
\* on: a Card whose database_id is None is a record without that field.
RECURSIVE with_database_id(_, _)
with_database_id(loaded, i) ==
    IF i > Len(loaded) THEN <<>>
    ELSE IF "database_id" \in DOMAIN loaded[i]
         THEN <<loaded[i].database_id>> \o with_database_id(loaded, i + 1)
         ELSE with_database_id(loaded, i + 1)

\* Variant: a sync without the `if not database_ids` return.
sync_start_without_ids_check(p, context, loaded) ==
    /\ proc[p].pc = "idle"
    /\ LET frame == [IdleFrame EXCEPT !.op = "sync", !.context = context,
                                      !.loaded = loaded,
                                      !.database_ids = with_database_id(loaded, 1)]
       IN  proc' = [proc EXCEPT ![p] =
                      IF loaded = <<>> THEN Finish(frame, Returned(0))
                      ELSE [frame EXCEPT !.pc = "fetch"]]
    /\ UNCHANGED <<cards, feedback, initialized>>

\* sync_feedback_for_context from the result of aload_cards to its second
\* await: return 0 when there are no cards, collect the ids, return 0 when
\* there are none, else call the deck.
sync_start(p, context, loaded) ==
    /\ proc[p].pc = "idle"
    /\ LET database_ids == with_database_id(loaded, 1)
           frame == [IdleFrame EXCEPT !.op = "sync", !.context = context,
                                      !.loaded = loaded,
                                      !.database_ids = database_ids]
       IN  proc' = [proc EXCEPT ![p] =
                      IF loaded = <<>> \/ database_ids = <<>>
                      THEN Finish(frame, Returned(0))
                      ELSE [frame EXCEPT !.pc = "fetch"]]
    /\ UNCHANGED <<cards, feedback, initialized>>

\* sync_feedback_for_context over the CardDatabase: the cards are those
\* aload_cards reads.
sync_load(p, context, ok) == sync_start(p, context, aload_cards(context, ok))

\* aget_feedback_for_database_ids: one lookup task per id, gathered.
aget_feedback_for_database_ids(database_ids, replies, first) ==
    gather([i \in 1..Len(tasks(database_ids)) |->
               fetch_single_feedback(tasks(database_ids)[i], replies[i])],
           first)

\* Variant: a sync without the `if not feedback` return.
sync_fetch_saving_empty(p, replies, first) ==
    /\ proc[p].pc = "fetch"
    /\ LET ids == proc[p].database_ids
           results == [i \in 1..Len(ids) |->
                          fetch_single_feedback(ids[i], replies[i])]
           got == aget_feedback_for_database_ids(ids, replies, first)
           frame == [proc[p] EXCEPT !.replies = replies, !.results = results,
                                    !.fetch_calls = @ + 1]
       IN  proc' = [proc EXCEPT ![p] =
                      IF got.kind = "raise" THEN Finish(frame, got)
                      ELSE [frame EXCEPT !.pc = "select",
                                         !.feedback_list = got.value,
                                         !.save_calls = @ + 1]]
    /\ UNCHANGED <<cards, feedback, initialized>>

\* The await of the deck in sync_feedback_for_context and what follows up
\* to the next await: an exception leaves the call, an empty list returns
\* 0, anything else enters asave_anki_feedback.
sync_fetch(p, replies, first) ==
    /\ proc[p].pc = "fetch"
    /\ LET ids == proc[p].database_ids
           results == [i \in 1..Len(ids) |->
                          fetch_single_feedback(ids[i], replies[i])]
           got == aget_feedback_for_database_ids(ids, replies, first)
           frame == [proc[p] EXCEPT !.replies = replies, !.results = results,
                                    !.fetch_calls = @ + 1]
       IN  proc' = [proc EXCEPT ![p] =
                      IF got.kind = "raise" THEN Finish(frame, got)
                      ELSE IF got.value = <<>> THEN Finish(frame, Returned(0))
                      ELSE [frame EXCEPT !.pc = "select",
                                         !.feedback_list = got.value,
                                         !.save_calls = @ + 1]]
    /\ UNCHANGED <<cards, feedback, initialized>>

\* Variant: asave_anki_feedback without the `if not feedback_list` return.
asave_anki_feedback_without_empty_check(p, feedback_list) ==
    /\ proc[p].pc = "idle"
    /\ proc' = [proc EXCEPT ![p] =
                 [IdleFrame EXCEPT !.op = "upsert", !.pc = "select",
                                   !.feedback_list = feedback_list]]
    /\ UNCHANGED <<cards, feedback, initialized>>

\* A direct call of asave_anki_feedback: an empty list returns at once.
asave_anki_feedback(p, feedback_list) ==
    /\ proc[p].pc = "idle"
    /\ LET frame == [IdleFrame EXCEPT !.op = "upsert",
                                      !.feedback_list = feedback_list]
       IN  proc' = [proc EXCEPT ![p] =
                      IF feedback_list = <<>>
                      THEN Finish(frame, Returned("None"))
                      ELSE [frame EXCEPT !.pc = "select"]]
    /\ UNCHANGED <<cards, feedback, initialized>>

\* asave_anki_feedback from ainit_database, which is outside the try and
\* raises when it fails, over the SELECT of the existing rows to the await
\* of the commit; a failing read raises out of the call.
save_select(p, ok) ==
    /\ proc[p].pc = "select"
    /\ \E init_ok \in BOOLEAN :
        LET init == ainit_database(init_ok)
            session == open_session(feedback, proc[p].feedback_list)
        IN  /\ initialized' = init.initialized
            /\ proc' = [proc EXCEPT ![p] =
                         IF init.ok /\ ok
                         THEN [proc[p] EXCEPT !.pc = "commit",
                                              !.session = session]
                         ELSE Finish(proc[p], Raised("storage"))]
    /\ UNCHANGED <<cards, feedback>>

\* await session.commit() and the return: sync returns len(feedback), the
\* direct call None; a failed commit raises and leaves the table as it was.
save_commit(p, ok) ==
    /\ proc[p].pc = "commit"
    /\ LET done == commit(feedback, proc[p].session, ok)
       IN  /\ feedback' = done.table
           /\ proc' = [proc EXCEPT ![p] =
                        IF ~done.ok THEN Finish(proc[p], Raised(done.error))
                        ELSE IF proc[p].op = "sync"
                             THEN Finish(proc[p],
                                         Returned(Len(proc[p].feedback_list)))
                             ELSE Finish(proc[p], Returned("None"))]
    /\ UNCHANGED <<cards, initialized>>

\* aload_anki_feedback: [] for no ids; else ainit_database, outside the try,
\* so that its failure raises; then [] for a failing read, else the rows of
\* the requested ids as feedback objects, in the order the SELECT (which
\* has no ORDER BY) yields them.
aload_anki_feedback(p, ids, ok, order) ==
    /\ proc[p].pc = "idle"
    /\ \E init_ok \in BOOLEAN :
        LET rows == {r \in feedback : r.database_id \in ids}
            init == IF ids = {} THEN [ok |-> TRUE, initialized |-> initialized]
                    ELSE ainit_database(init_ok)
            frame == [IdleFrame EXCEPT !.op = "load",
                                       !.database_ids = order_ids(ids),
                                       !.fault = (ids # {}
                                                  /\ (~init.ok \/ ~ok))]
        IN  /\ order \in Orders(rows)
            /\ initialized' = init.initialized
            /\ proc' = [proc EXCEPT ![p] =
                   IF ~init.ok THEN Finish(frame, Raised("storage"))
                   ELSE Finish(frame,
                               Returned(IF ok /\ ids # {}
                                        THEN [i \in 1..Len(order) |->
                                                 model_validate(order[i])]
                                        ELSE <<>>))]
    /\ UNCHANGED <<cards, feedback>>

\* The caller takes the outcome of its call.
call_returns(p) ==
    /\ proc[p].pc = "done"
    /\ proc' = [proc EXCEPT ![p] = IdleFrame]
    /\ UNCHANGED <<cards, feedback, initialized>>

\* The inputs of the deck's await: a reply per requested id, and the task
\* that raises first when some task raises.
fetch(p) ==
    /\ proc[p].pc = "fetch"
    /\ \E replies \in [1..Len(proc[p].database_ids) -> Replies],
       first \in 1..Len(proc[p].database_ids) :
        /\ LET raising == Raising([i \in DOMAIN replies |->
                              fetch_single_feedback(proc[p].database_ids[i],
                                                    replies[i])])
           IN  IF raising = {} THEN first = 1 ELSE first \in raising
        /\ sync_fetch(p, replies, first)

load(p) ==
    /\ proc[p].pc = "idle"
    /\ \E ids \in SUBSET CardIds, ok \in BOOLEAN :
        \E order \in Orders({r \in feedback : r.database_id \in ids}) :
            aload_anki_feedback(p, ids, ok, order)

\* One caller at a time.
Next ==
    \/ \E context \in Contexts : asave_cards(context)
    \/ \E context \in Contexts, ok \in BOOLEAN : sync_load("p1", context, ok)
    \/ fetch("p1")
    \/ \E feedback_list \in Batches : asave_anki_feedback("p1", feedback_list)
    \/ \E ok \in BOOLEAN : save_select("p1", ok)
    \/ \E ok \in BOOLEAN : save_commit("p1", ok)
    \/ load("p1")
    \/ call_returns("p1")

Spec == Init /\ [][Next]_vars

\* Overlapping syncs and readers of one context.
NextConc ==
    \/ asave_cards("doc1")
    \/ \E p \in Procs :
        \/ \E ok \in BOOLEAN : sync_load(p, "doc1", ok)
        \/ fetch(p)
        \/ \E ok \in BOOLEAN : save_select(p, ok)
        \/ \E ok \in BOOLEAN : save_commit(p, ok)
        \/ load(p)
        \/ call_returns(p)

SpecConc == Init /\ [][NextConc]_vars

(* ------------- sync over a card store handing out any cards ------------ *)

\* Card objects of one context: Card.database_id is Optional with default
\* None, so a card may carry no id.
Cards(context) ==
    {[context |-> context]}
        \cup {[database_id |-> d, context |-> context] : d \in CardIds}

\* The lists a card store may return for a context: no database_id twice.
CardLists(context) ==
    {l \in UNION {[1..n -> Cards(context)] : n \in 0..MaxCards} :
        \A i, j \in DOMAIN l :
            ("database_id" \in DOMAIN l[i] /\ l[i] = l[j]) => i = j}

\* `cards = await db.aload_cards(context)` with db any card store.
sync_cards(p) ==
    /\ proc[p].pc = "idle"
    /\ \E loaded \in CardLists("doc1") : sync_start(p, "doc1", loaded)

NextCards ==
    \/ sync_cards("p1")
    \/ fetch("p1")
    \/ \E ok \in BOOLEAN : save_select("p1", ok)
    \/ \E ok \in BOOLEAN : save_commit("p1", ok)
    \/ call_returns("p1")

SpecCards == Init /\ [][NextCards]_vars

(* ------------------- the card store called directly -------------------- *)

\* An evaluated card of another context.
CardLiked ==
    [question |-> "Q2", answer |-> "A2", topic |-> "T2", context |-> "doc2",
     evaluation |-> "liked"]

\* An evaluated card whose topic is the default, the empty string.
CardNoTopic ==
    [question |-> "Q1", answer |-> "A1", topic |-> "", context |-> "doc1",
     evaluation |-> "liked"]

SampleCards == {NewCard("doc1"), CardLiked, CardNoTopic}

WithDatabaseId(card, id) ==
    [f \in DOMAIN card \cup {"database_id"} |->
        IF f = "database_id" THEN id ELSE card[f]]

\* The cards a caller hands to asave_cards: without database_id, or with
\* one, which may or may not be the id of a row.
StoreCards ==
    SampleCards \cup {WithDatabaseId(c, d) : c \in SampleCards, d \in CardIds}

CardBatches == UNION {[1..n -> StoreCards] : n \in 0..MaxBatch}

\* A direct call of asave_cards(cards_list).
save_cards(p, cards_list, ok) ==
    /\ proc[p].pc = "idle"
    /\ LET done == asave_cards_session(cards, cards_list, ok)
           frame == [IdleFrame EXCEPT !.op = "save_cards",
                                      !.cards = cards_list, !.fault = ~ok]
       IN  /\ \A r \in done.table : r.id <= MaxCards
           /\ cards' = done.table
           /\ proc' = [proc EXCEPT ![p] =
                        IF done.ok THEN Finish(frame, Returned(done.ret))
                        ELSE Finish(frame, Raised(done.error))]
    /\ UNCHANGED <<feedback, initialized>>

save_cards_any(p) ==
    /\ proc[p].pc = "idle"
    /\ \E cards_list \in CardBatches, ok \in BOOLEAN :
          save_cards(p, cards_list, ok)

\* A direct call of aload_cards(context).
load_cards(p, context, ok) ==
    /\ proc[p].pc = "idle"
    /\ proc' = [proc EXCEPT ![p] =
                 Finish([IdleFrame EXCEPT !.op = "load_cards",
                                          !.context = context, !.fault = ~ok],
                        Returned(aload_cards(context, ok)))]
    /\ UNCHANGED <<cards, feedback, initialized>>

\* The contexts in the order ORDER BY gives them.
SortedContexts == <<"doc1", "doc2">>

\* Variant: the context of every row, in id order.
aget_contexts_per_row(ok) ==
    IF ok THEN [i \in 1..Cardinality(cards) |-> order_by_id(cards)[i].context]
    ELSE <<>>

\* aget_contexts: the distinct contexts of the rows, sorted; [] when the
\* read fails.
aget_contexts(ok) ==
    LET Stored(c) == \E r \in cards : r.context = c
    IN  IF ok THEN SelectSeq(SortedContexts, Stored) ELSE <<>>

get_contexts(p, ok) ==
    /\ proc[p].pc = "idle"
    /\ proc' = [proc EXCEPT ![p] =
                 Finish([IdleFrame EXCEPT !.op = "get_contexts",
                                          !.fault = ~ok],
                        Returned(aget_contexts(ok)))]
    /\ UNCHANGED <<cards, feedback, initialized>>

\* Variant: a delete that removes the feedback rows of the deleted cards too.
adelete_context_cascading(p, context, ok) ==
    /\ proc[p].pc = "idle"
    /\ cards' = IF ok THEN {r \in cards : r.context # context} ELSE cards
    /\ feedback' = {r \in feedback :
                      \E c \in cards' : c.id = r.database_id}
    /\ proc' = [proc EXCEPT ![p] =
                 Finish([IdleFrame EXCEPT !.op = "delete_context",
                                          !.context = context, !.fault = ~ok],
                        Returned("None"))]
    /\ UNCHANGED initialized

\* adelete_context: DELETE of the rows of the context and commit; a
\* failure is logged and the call returns None all the same.
adelete_context(p, context, ok) ==
    /\ proc[p].pc = "idle"
    /\ cards' = IF ok THEN {r \in cards : r.context # context} ELSE cards
    /\ proc' = [proc EXCEPT ![p] =
                 Finish([IdleFrame EXCEPT !.op = "delete_context",
                                          !.context = context, !.fault = ~ok],
                        Returned("None"))]
    /\ UNCHANGED <<feedback, initialized>>

\* aclear_all_cards: ainit_database outside the try, whose failure raises;
\* then DELETE of every row and commit, whose failure is logged and the
\* call returns None all the same.
aclear_all_cards(p, ok) ==
    /\ proc[p].pc = "idle"
    /\ \E init_ok \in BOOLEAN :
        LET init == ainit_database(init_ok)
            frame == [IdleFrame EXCEPT !.op = "clear_all_cards",
                                       !.fault = (~init.ok \/ ~ok)]
        IN  /\ initialized' = init.initialized
            /\ cards' = IF init.ok /\ ok THEN {} ELSE cards
            /\ proc' = [proc EXCEPT ![p] =
                         IF ~init.ok THEN Finish(frame, Raised("storage"))
                         ELSE Finish(frame, Returned("None"))]
    /\ UNCHANGED feedback

NextStore ==
    \/ save_cards_any("p1")
    \/ \E context \in Contexts, ok \in BOOLEAN : load_cards("p1", context, ok)
    \/ \E ok \in BOOLEAN : get_contexts("p1", ok)
    \/ \E context \in Contexts, ok \in BOOLEAN :
          adelete_context("p1", context, ok)
    \/ \E ok \in BOOLEAN : aclear_all_cards("p1", ok)
    \/ load("p1")
    \/ call_returns("p1")

SpecStore == Init /\ [][NextStore]_vars

(* ---------------- cards generated, synced and deleted ------------------ *)

\* The life of the cards of the contexts: generated cards are saved, their
\* feedback is synced and read, and contexts are deleted; one caller.
NextLife ==
    \/ \E context \in Contexts : save_cards("p1", <<NewCard(context)>>, TRUE)
    \/ \E context \in Contexts, ok \in BOOLEAN : sync_load("p1", context, ok)
    \/ fetch("p1")
    \/ \E ok \in BOOLEAN : save_select("p1", ok)
    \/ \E ok \in BOOLEAN : save_commit("p1", ok)
    \/ \E context \in Contexts, ok \in BOOLEAN :
          adelete_context("p1", context, ok)
    \/ \E ok \in BOOLEAN : aclear_all_cards("p1", ok)
    \/ load("p1")
    \/ call_returns("p1")

SpecLife == Init /\ [][NextLife]_vars

(* ----------------------- the deck called directly ---------------------- *)

\* Cards of one note in a cardsInfo result.
MaxNoteCards == 2

\* A note without the Topic field.
NoteNoTopic ==
    [noteId |-> 103, modelName |-> "Basic",
     fields |-> [Question |-> [value |-> "Q3"], Answer |-> [value |-> "A3"]]]

\* A note without modelName whose Answer field carries no value.
NoteNoValue ==
    [noteId |-> 104,
     fields |-> [Question |-> [value |-> "Q4"], Answer |-> [order |-> 1],
                 Topic |-> [value |-> "T4"]]]

\* The notes a findNotes/notesInfo pair may name for one id: none, one, or
\* two notes carrying the same id field.
NoteLists ==
    {<<>>, <<NoteA>>, <<NoteB>>, <<NoteNoTopic>>, <<NoteNoValue>>,
     <<NoteA, NoteB>>, <<NoteB, NoteA>>}

\* cardsInfo entries of the note n: active, suspended, suspended by its
\* queue only, with a flag int() rejects, with a flag given as a numeral,
\* and without suspended and flags.
CardsOfNote(n) ==
    { [note |-> n, suspended |-> FALSE, queue |-> 0, flags |-> [int |-> 0]],
      [note |-> n, suspended |-> TRUE, queue |-> -1, flags |-> [int |-> 2]],
      [note |-> n, suspended |-> FALSE, queue |-> -1, flags |-> [int |-> 1]],
      [note |-> n, suspended |-> FALSE, queue |-> 0, flags |-> [str |-> "invalid"]],
      [note |-> n, suspended |-> FALSE, queue |-> 0, flags |-> [str |-> "3"]],
      [note |-> n, queue |-> 0] }

\* findCards and cardsInfo run the query findNotes ran, so they give the
\* cards of every note the query matches.
CardsOfNotes(notes) ==
    LET all == UNION {CardsOfNote(notes[i].noteId) : i \in DOMAIN notes}
    IN  UNION {[1..n -> all] : n \in 0..MaxNoteCards}

\* What the remote may answer to one lookup made directly: any notes with
\* any of their cards, or a failure at one of the four requests.
DeckReplies ==
    UNION {{Reply(0, "transport", notes, cs) : cs \in CardsOfNotes(notes)} :
              notes \in NoteLists}
        \cup {Reply(n, k, <<NoteA>>, cs) :
                 n \in 1..4, k \in FaultKinds,
                 cs \in {c \in CardsOfNotes(<<NoteA>>) : Len(c) <= 1}}

\* A direct call of _fetch_single_feedback(db_id).
lookup(p, db_id, r) ==
    /\ proc[p].pc = "idle"
    /\ LET out == fetch_single_feedback(db_id, r)
       IN  proc' = [proc EXCEPT ![p] =
                      Finish([IdleFrame EXCEPT !.op = "lookup",
                                               !.database_ids = <<db_id>>,
                                               !.replies = <<r>>,
                                               !.results = <<out>>], out)]
    /\ UNCHANGED <<cards, feedback, initialized>>

\* A direct call of aget_feedback_for_database_ids(database_ids) whose
\* lookups complete in the order `completed`.
deck_fetch(p, database_ids, replies, completed) ==
    /\ proc[p].pc = "idle"
    /\ LET results == [i \in 1..Len(database_ids) |->
                          fetch_single_feedback(database_ids[i], replies[i])]
           first == first_raised(results, completed)
       IN  proc' = [proc EXCEPT ![p] =
                      Finish([IdleFrame EXCEPT !.op = "fetch",
                                               !.database_ids = database_ids,
                                               !.replies = replies,
                                               !.results = results,
                                               !.lookups =
                                                  [k \in DOMAIN completed |->
                                                     tasks(database_ids)[completed[k]]],
                                               !.fetch_calls = 1],
                             aget_feedback_for_database_ids(database_ids,
                                                            replies, first))]
    /\ UNCHANGED <<cards, feedback, initialized>>

\* The HTTP responses the endpoint may give: a status, and a payload with a
\* result and, when the remote rejects the request, an error message.
Responses ==
    {[status |-> st, payload |-> pl] :
        st \in {200, 404, 500},
        pl \in {[result |-> <<>>], [result |-> <<101>>],
                [result |-> <<>>, error |-> "deck was not found"],
                [result |-> <<101>>, error |-> "unsupported action"]}}

\* A direct call of _post.
post_any(p) ==
    /\ proc[p].pc = "idle"
    /\ \E response \in Responses :
          proc' = [proc EXCEPT ![p] =
                     Finish([IdleFrame EXCEPT !.op = "post",
                                              !.replies = <<response>>],
                            post_response(response))]
    /\ UNCHANGED <<cards, feedback, initialized>>

\* The attributes __init__ sets on an AnkiConnectDeck.
DeckAttributes ==
    {"deck_name", "model_name", "id_field", "field_map", "endpoint"}

\* The methods the class AnkiConnectDeck defines.
DeckMethods ==
    {"_post", "_build_search_for_id", "_fetch_single_feedback",
     "aget_feedback_for_database_ids"}

\* The names a user of a session-holding deck reads: the session, the
\* method making it, the method closing it and the context-manager entry
\* and exit.
SessionNames == {"_session", "_ensure_session", "close", "__aenter__",
                 "__aexit__"}

\* deck.<name>: an attribute or method the object has, else AttributeError.
deck_getattr(p, name) ==
    /\ proc[p].pc = "idle"
    /\ proc' = [proc EXCEPT ![p] =
                 Finish([IdleFrame EXCEPT !.op = "getattr",
                                          !.replies = <<name>>],
                        IF name \in DeckAttributes \cup DeckMethods
                        THEN Returned(name) ELSE Raised("attribute"))]
    /\ UNCHANGED <<cards, feedback, initialized>>

deck_getattr_any(p) ==
    \E name \in DeckAttributes \cup DeckMethods \cup SessionNames :
        deck_getattr(p, name)

\* The id lists a caller asks about: distinct ids in any order.
IdLists == UNION {Orders(S) : S \in SUBSET CardIds}

\* The inputs of a direct lookup: an id and what the remote answers.
lookup_any(p) ==
    /\ proc[p].pc = "idle"
    /\ \E db_id \in CardIds, r \in DeckReplies : lookup(p, db_id, r)

\* cardsInfo entries whose flags a well-behaved remote does not send: a
\* negative number, a string int() rejects.
CardFlagged(flags) == [suspended |-> FALSE, queue |-> 0, flags |-> flags]

\* Replies naming a note whose cards carry such flags, alone or next to a
\* card with a flag the remote does send.
FlagReplies ==
    { Reply(0, "transport", <<NoteA>>, cs) :
        cs \in { <<CardFlagged([int |-> -1])>>,
                 <<CardFlagged([int |-> -3]), CardFlagged([int |-> -1])>>,
                 <<CardFlagged([int |-> -1]), CardFlagged([str |-> "invalid"])>>,
                 <<CardFlagged([int |-> 2]), CardFlagged([int |-> -1])>> } }

\* The inputs of a direct fetch: the ids, a reply per id, and the order in
\* which the lookups, run in threads, complete.
deck_fetch_any(p) ==
    /\ proc[p].pc = "idle"
    /\ \E database_ids \in IdLists :
         \E replies \in [1..Len(database_ids) -> Replies \cup FlagReplies],
            completed \in Orders(1..Len(database_ids)) :
             deck_fetch(p, database_ids, replies, completed)

NextDeck ==
    \/ post_any("p1")
    \/ deck_getattr_any("p1")
    \/ lookup_any("p1")
    \/ deck_fetch_any("p1")
    \/ call_returns("p1")

SpecDeck == Init /\ [][NextDeck]_vars

(* ----------------------------- properties ------------------------------ *)

\* The rows of the table for one database_id.
RowsOf(table, id) == {r \in table : r.database_id = id}

\* A row holds exactly the values of a feedback object.
Holds(row, fb) == \A c \in Columns : row[c] = fb[c]

BatchIds(feedback_list) ==
    {feedback_list[i].database_id : i \in 1..Len(feedback_list)}

TransportFaults(results) ==
    {i \in 1..Len(results) : results[i] = Raised("transport")}

C2_TransportFaultYieldsZero ==
    \A p \in Procs :
        LET f == proc[p]
        IN  ( /\ f.op = "sync" /\ f.pc = "done" /\ f.fetch_calls = 1
              /\ Raising(f.results) # {}
              /\ \A i \in Raising(f.results) : f.results[i].error = "transport" )
            => f.ret = Returned(0) /\ f.save_calls = 0

\* A sync whose lookups failed only with remote rejections ended by raising
\* the rejection, without calling asave_anki_feedback.
RejectionRaised(f) ==
    ( /\ f.op = "sync" /\ f.pc = "done"
      /\ Raising(f.results) # {}
      /\ \A i \in Raising(f.results) : f.results[i].error = "rejected" )
    => f.ret = Raised("rejected") /\ f.save_calls = 0

C4_OneRowPerLocalId ==
    \A r1, r2 \in feedback : r1.database_id = r2.database_id => r1 = r2

\* A direct call whose list named one new database_id twice was refused,
\* and no row of it is stored.
C4_Witness ==
    \E p \in Procs :
        /\ proc[p].op = "upsert" /\ proc[p].pc = "done"
        /\ proc[p].ret = Raised("integrity")
        /\ Len(proc[p].session.added) = 2
        /\ proc[p].session.added[1].database_id
               = proc[p].session.added[2].database_id
        /\ RowsOf(feedback, proc[p].session.added[1].database_id) = {}

\* C5: a direct call with the single feedback f, committed while a row of
\* f.database_id exists, leaves exactly one row of that id, and every column
\* of it holds f's value.
C5_UpsertReplaces ==
    [][\A p \in Procs :
          ( /\ proc[p].op = "upsert" /\ proc[p].pc = "commit"
            /\ Len(proc[p].feedback_list) = 1
            /\ RowsOf(feedback, proc[p].feedback_list[1].database_id) # {}
            /\ proc'[p].ret.kind = "return" )
          => LET f == proc[p].feedback_list[1]
                 rows == RowsOf(feedback', f.database_id)
             IN  /\ Cardinality(rows) = 1
                 /\ \A r \in rows : Holds(r, f)
                 /\ Cardinality(feedback') = Cardinality(feedback)
      ]_vars

\* A direct call with one feedback has returned after updating a row that
\* differed from the feedback in every column.
C5_Witness ==
    \E p \in Procs :
        /\ proc[p].op = "upsert" /\ proc[p].pc = "done"
        /\ proc[p].ret.kind = "return"
        /\ Len(proc[p].feedback_list) = 1
        /\ \E pk \in DOMAIN proc[p].session.dirty :
              \A c \in Columns :
                  proc[p].session.loaded[pk][c] # proc[p].feedback_list[1][c]

\* C6: asave_anki_feedback is all-or-nothing.  A step that ends a call by
\* raising leaves the table as it was; and the table changes only in the
\* step in which one call's commit returns, after which every database_id of
\* that call's list has its row: no table a reader can see holds a part of
\* a list.
C6_AllOrNothing ==
    [][ /\ \A p \in Procs :
              (proc'[p].pc = "done" /\ proc[p].pc # "done"
                  /\ proc'[p].ret.kind = "raise")
              => feedback' = feedback
        /\ feedback' # feedback
              => \E p \in Procs :
                    /\ proc[p].pc = "commit" /\ proc'[p].pc = "done"
                    /\ proc'[p].ret.kind = "return"
                    /\ \A d \in BatchIds(proc[p].feedback_list) :
                          RowsOf(feedback', d) # {}
                    /\ \A r \in feedback :
                          r.database_id \notin BatchIds(proc[p].feedback_list)
                              => r \in feedback'
      ]_vars

\* A call whose first INSERT was possible and whose second was refused has
\* raised, and the row of the first is not in the table.
C6_Witness ==
    \E p \in Procs :
        /\ proc[p].pc = "done" /\ proc[p].ret = Raised("integrity")
        /\ Len(proc[p].session.added) = 2
        /\ RowsOf(feedback, proc[p].session.added[1].database_id) = {}
        /\ RowsOf(feedback, proc[p].session.added[2].database_id) # {}

\* What a second sync of the same context makes of the same cards and the
\* same lookup results, run with no storage failure where frame f's sync
\* has just returned.
SyncAgain(f) ==
    LET feedback_list == not_none(f.results, 1)
        done == commit(feedback, open_session(feedback, feedback_list), TRUE)
    IN  IF feedback_list = <<>>
        THEN [ok |-> TRUE, ret |-> Returned(0), table |-> feedback]
        ELSE [ok |-> done.ok, ret |-> Returned(Len(feedback_list)),
              table |-> done.table]

\* C7: sync idempotence.  Once a sync has returned, a second sync of the same
\* context over the same cards and the same external data returns the same
\* count and leaves the table as the first left it.
C7_SyncIdempotent ==
    \A p \in Procs :
        LET f == proc[p]
            loaded == aload_cards(f.context, TRUE)
        IN  ( /\ f.op = "sync" /\ f.pc = "done" /\ f.ret.kind = "return"
              /\ f.database_ids = [i \in 1..Len(loaded) |-> loaded[i].database_id] )
            => /\ SyncAgain(f).ok
               /\ SyncAgain(f).ret = f.ret
               /\ SyncAgain(f).table = feedback

\* A sync has returned 2 after inserting two rows.
C7_Witness ==
    \E p \in Procs :
        /\ proc[p].op = "sync" /\ proc[p].pc = "done"
        /\ proc[p].ret = Returned(2)
        /\ Len(proc[p].session.added) = 2
        /\ \A i \in 1..2 :
              RowsOf(feedback, proc[p].session.added[i].database_id) # {}

\* C8: of two overlapping syncs of one context neither fails because of the
\* other (no sync is refused by the rows the other one committed), and each
\* database_id keeps one row.
C8_OverlappingSyncsBothComplete ==
    /\ \A p \in Procs :
          ~(proc[p].op = "sync" /\ proc[p].pc = "done"
               /\ proc[p].ret = Raised("integrity"))
    /\ \A r1, r2 \in feedback : r1.database_id = r2.database_id => r1.id = r2.id

\* The feedback objects aload_anki_feedback yields for a set of ids.
Loaded(ids) == {model_validate(r) : r \in {x \in feedback : x.database_id \in ids}}

\* C9: a sync whose fetch gave the non-empty list F has called
\* asave_anki_feedback once, with F, and returned len(F); loading the
\* feedback of all the context's ids then yields exactly one entry for each
\* id of F, and none for an id that did not resolve and has no row.
C9_SyncPersistsFetched ==
    \A p \in Procs :
        LET f == proc[p]
            ids == {f.database_ids[i] : i \in 1..Len(f.database_ids)}
        IN  ( /\ f.op = "sync" /\ f.pc = "done" /\ f.ret.kind = "return"
              /\ not_none(f.results, 1) # <<>> )
            => /\ f.save_calls = 1
               /\ f.feedback_list = not_none(f.results, 1)
               /\ f.ret.value = Len(f.feedback_list)
               /\ \A d \in BatchIds(f.feedback_list) :
                     Cardinality({x \in Loaded(ids) : x.database_id = d}) = 1
               /\ \A d \in ids \ BatchIds(f.feedback_list) :
                     RowsOf(feedback, d) = {}
                         => {x \in Loaded(ids) : x.database_id = d} = {}

\* C10: a sync of a context that has no card returns 0 at once, with no
\* call to the deck and none to asave_anki_feedback.
C10_NoCardsNoCalls ==
    [][\A p \in Procs :
          ( /\ proc[p].pc = "idle" /\ proc'[p].op = "sync"
            /\ {r \in cards : r.context = proc'[p].context} = {} )
          => /\ proc'[p].pc = "done"
             /\ proc'[p].ret = Returned(0)
             /\ proc'[p].fetch_calls = 0 /\ proc'[p].save_calls = 0
      ]_vars

\* A sync of a context without cards has returned while the other context
\* has cards.
C10_Witness ==
    \E p \in Procs :
        /\ proc[p].op = "sync" /\ proc[p].pc = "done"
        /\ proc[p].ret = Returned(0)
        /\ {r \in cards : r.context = proc[p].context} = {}
        /\ cards # {}

\* The positions of the cards of a list that carry a database_id.
WithId(loaded) == {i \in DOMAIN loaded : "database_id" \in DOMAIN loaded[i]}

\* C11: the ids a sync collects, and asks the deck about, are the
\* database_ids of the loaded cards that have one, in the order of the load:
\* the k-th id is the id of the k-th card that has one, and a card without
\* database_id gives no id.
C11_IdsOfLoadedCards ==
    \A p \in Procs :
        LET f == proc[p]
        IN  f.op = "sync"
            => /\ Len(f.database_ids) = Cardinality(WithId(f.loaded))
               /\ \A j \in WithId(f.loaded) :
                     f.database_ids[Cardinality({i \in WithId(f.loaded) : i <= j})]
                         = f.loaded[j].database_id
               /\ f.fetch_calls = 1
                     => /\ Len(f.results) = Len(f.database_ids)
                        /\ \A k \in DOMAIN f.results :
                              f.results[k].kind = "return"
                                  => f.results[k].value.database_id
                                         = f.database_ids[k]

\* A sync has asked the deck about one id after loading a card without
\* database_id followed by a card with one.
C11_Witness ==
    \E p \in Procs :
        /\ proc[p].op = "sync" /\ proc[p].fetch_calls = 1
        /\ Len(proc[p].loaded) = 2
        /\ WithId(proc[p].loaded) = {2}
        /\ proc[p].database_ids = <<proc[p].loaded[2].database_id>>

\* C12: a sync that loaded cards none of which has a database_id returns 0
\* in that step, with no call to the deck, none to asave_anki_feedback and
\* the table as it was.
C12_NoIdsNoCalls ==
    [][\A p \in Procs :
          ( /\ proc[p].pc = "idle" /\ proc'[p].op = "sync"
            /\ proc'[p].loaded # <<>> /\ WithId(proc'[p].loaded) = {} )
          => /\ proc'[p].pc = "done"
             /\ proc'[p].ret = Returned(0)
             /\ proc'[p].fetch_calls = 0 /\ proc'[p].save_calls = 0
             /\ feedback' = feedback
      ]_vars

\* A sync over two cards without database_id has returned 0.
C12_Witness ==
    \E p \in Procs :
        /\ proc[p].op = "sync" /\ proc[p].pc = "done"
        /\ proc[p].ret = Returned(0)
        /\ Len(proc[p].loaded) = 2 /\ WithId(proc[p].loaded) = {}

\* C13: a sync to which the deck returned the empty list (no lookup raised
\* and none resolved) returns 0 in that step, without calling
\* asave_anki_feedback, and the table is as it was.
C13_EmptyFeedbackNoWrite ==
    [][\A p \in Procs :
          ( /\ proc[p].op = "sync" /\ proc[p].pc = "fetch"
            /\ proc'[p].fetch_calls = 1
            /\ Raising(proc'[p].results) = {}
            /\ not_none(proc'[p].results, 1) = <<>> )
          => /\ proc'[p].pc = "done"
             /\ proc'[p].ret = Returned(0)
             /\ proc'[p].save_calls = 0
             /\ feedback' = feedback
      ]_vars

\* A sync over two ids, neither of which resolved, has returned 0 while the
\* table holds rows.
C13_Witness ==
    \E p \in Procs :
        /\ proc[p].op = "sync" /\ proc[p].pc = "done"
        /\ proc[p].fetch_calls = 1 /\ proc[p].ret = Returned(0)
        /\ Len(proc[p].results) = 2
        /\ \A i \in 1..2 : proc[p].results[i] = NoFeedback
        /\ feedback # {}

\* C14: a direct fetch in which every lookup failed at the transport (every
\* request raised) returns the empty list.
C14_TransportDownYieldsEmpty ==
    \A p \in Procs :
        LET f == proc[p]
        IN  ( /\ f.op = "fetch" /\ f.pc = "done"
              /\ f.results # <<>>
              /\ \A i \in DOMAIN f.results : f.results[i] = Raised("transport") )
            => f.ret = Returned(<<>>)

\* The entries of a list of feedback objects for one database_id.
EntriesOf(feedback_list, id) ==
    {k \in DOMAIN feedback_list : feedback_list[k].database_id = id}

\* C15: a direct fetch in which no request failed returns a list, no longer
\* than the list of ids, holding exactly one entry for each id whose
\* findNotes named a note and none for an id whose findNotes named no note,
\* in the order of the ids.
C15_OneEntryPerResolvedId ==
    \A p \in Procs :
        LET f == proc[p]
        IN  ( /\ f.op = "fetch" /\ f.pc = "done"
              /\ \A i \in DOMAIN f.replies : f.replies[i].failAt = 0 )
            => /\ f.ret.kind = "return"
               /\ Len(f.ret.value) <= Len(f.database_ids)
               /\ \A i \in DOMAIN f.database_ids :
                     Cardinality(EntriesOf(f.ret.value, f.database_ids[i]))
                         = IF f.replies[i].noteIds # <<>> THEN 1 ELSE 0
               /\ \A k, l \in DOMAIN f.ret.value :
                     k < l => \E i, j \in DOMAIN f.database_ids :
                                 /\ i < j
                                 /\ f.database_ids[i] = f.ret.value[k].database_id
                                 /\ f.database_ids[j] = f.ret.value[l].database_id

\* A direct fetch of two ids, the first without a note and the second with
\* one, has returned one entry, for the second id.
C15_Witness ==
    \E p \in Procs :
        /\ proc[p].op = "fetch" /\ proc[p].pc = "done"
        /\ Len(proc[p].database_ids) = 2
        /\ proc[p].replies[1].noteIds = <<>> /\ proc[p].replies[1].failAt = 0
        /\ proc[p].replies[2].noteIds # <<>> /\ proc[p].replies[2].failAt = 0
        /\ proc[p].ret.kind = "return" /\ Len(proc[p].ret.value) = 1
        /\ proc[p].ret.value[1].database_id = proc[p].database_ids[2]

\* The elements of a list.
Range(l) == {l[i] : i \in DOMAIN l}

\* A lookup made directly that met no failing request and found notes.
Resolved(f) ==
    /\ f.op = "lookup" /\ f.pc = "done"
    /\ f.replies[1].failAt = 0
    /\ f.replies[1].notes # <<>>

Unparseable(c) ==
    /\ "flags" \in DOMAIN c /\ "str" \in DOMAIN c.flags
    /\ \A i \in DOMAIN Numerals : Numerals[i] # c.flags.str

\* C17: a lookup that found a note one of whose cards has an unparseable
\* flag still gives a feedback, and its flag is the largest flag of the
\* other cards, 0 when there is none.
C17_InvalidFlagIsZero ==
    \A p \in Procs :
        LET f == proc[p]
            cs == Range(f.replies[1].cards)
            others == {flag_value(c) : c \in {x \in cs : ~Unparseable(x)}}
        IN  ( /\ Resolved(f) /\ \E c \in cs : Unparseable(c) )
            => /\ f.ret.kind = "return"
               /\ f.ret.value.flag = MaxOf(others \cup {0})

\* A lookup whose first card has the flag "invalid" and whose second card
\* has the flag 2 gave flag 2.
C17_Witness ==
    \E p \in Procs :
        /\ Resolved(proc[p])
        /\ Len(proc[p].replies[1].cards) = 2
        /\ \A i \in 1..2 : "flags" \in DOMAIN proc[p].replies[1].cards[i]
        /\ proc[p].replies[1].cards[1].flags = [str |-> "invalid"]
        /\ proc[p].replies[1].cards[2].flags = [int |-> 2]
        /\ proc[p].ret.kind = "return" /\ proc[p].ret.value.flag = 2

\* The value of the note field `name`, "" when the note has no such field
\* or the field has no value.
FieldValue(note, name) ==
    IF name \in DOMAIN note.fields /\ "value" \in DOMAIN note.fields[name]
    THEN note.fields[name].value
    ELSE ""

C19_NoCardsNoCardsInfo ==
    \A p \in Procs :
        LET f == proc[p]
        IN  ( /\ f.op = "lookup" /\ f.pc = "done"
              /\ f.replies[1].failAt \in {0, 4}
              /\ f.replies[1].notes # <<>> /\ f.replies[1].cardIds = <<>> )
            => /\ f.ret.kind = "return"
               /\ ~f.ret.value.suspended
               /\ f.ret.value.flag = 0

\* A lookup found a note without cards while cardsInfo was failing, and
\* gave a feedback.
C19_Witness ==
    \E p \in Procs :
        /\ proc[p].op = "lookup" /\ proc[p].pc = "done"
        /\ proc[p].replies[1].failAt = 4
        /\ proc[p].replies[1].notes # <<>> /\ proc[p].replies[1].cardIds = <<>>
        /\ proc[p].ret.kind = "return"

\* C20: a lookup whose query matched several notes gives a feedback whose
\* note id, question, answer and topic are those of the first note, and
\* whose suspended and flag are those of the first note's cards.
C20_FirstNoteWins ==
    \A p \in Procs :
        LET f == proc[p]
            note == f.replies[1].notes[1]
            own == {c \in Range(f.replies[1].cards) : c.note = note.noteId}
        IN  ( Resolved(f) /\ Len(f.replies[1].notes) >= 2 )
            => /\ f.ret.kind = "return"
               /\ f.ret.value.anki_note_id = note.noteId
               /\ f.ret.value.question = FieldValue(note, "Question")
               /\ f.ret.value.answer = FieldValue(note, "Answer")
               /\ f.ret.value.topic = FieldValue(note, "Topic")
               /\ f.ret.value.suspended
                     <=> \E c \in own :
                            \/ ("suspended" \in DOMAIN c /\ c.suspended)
                            \/ ("queue" \in DOMAIN c /\ c.queue = -1)
               /\ f.ret.value.flag = MaxOf({flag_value(c) : c \in own} \cup {0})

\* The ids of the rows of a table of cards.
IdsOf(table) == {r.id : r \in table}

\* A row holds the field values of a card.
HoldsCard(row, card) == \A c \in CardColumns : row[c] = card[c]

\* The positions of a list of cards that carry the database_id id.
Carrying(cards_list, id) ==
    {i \in DOMAIN cards_list :
        "database_id" \in DOMAIN cards_list[i] /\ cards_list[i].database_id = id}

\* C22: when asave_cards returns, every card of its list whose database_id
\* was the id of a row (and is carried by no other card of the list) has
\* that row holding the card's question, answer, topic, context and
\* evaluation, and a list of one such card adds no row.
C22_UpdateInPlace ==
    [][\A p \in Procs :
          ( /\ proc[p].pc = "idle" /\ proc'[p].op = "save_cards"
            /\ proc'[p].ret.kind = "return" )
          => LET cards_list == proc'[p].cards
             IN  \A id \in IdsOf(cards) :
                    \A i \in Carrying(cards_list, id) :
                        Carrying(cards_list, id) = {i}
                        => /\ \E r \in cards' :
                                r.id = id /\ HoldsCard(r, cards_list[i])
                           /\ Len(cards_list) = 1
                                => Cardinality(cards') = Cardinality(cards)
      ]_vars

\* C23: asave_cards called with one card that has no database_id, or one
\* that is the id of no row, and meeting no storage failure, returns after
\* adding exactly one row, which holds the card's field values under an id
\* no row had, every other row being as it was.
C23_InsertFresh ==
    [][\A p \in Procs :
          ( /\ proc[p].pc = "idle" /\ proc'[p].op = "save_cards"
            /\ ~proc'[p].fault
            /\ Len(proc'[p].cards) = 1
            /\ \A id \in IdsOf(cards) : Carrying(proc'[p].cards, id) = {} )
          => /\ proc'[p].ret.kind = "return"
             /\ \E r \in cards' :
                   /\ r.id \notin IdsOf(cards)
                   /\ HoldsCard(r, proc'[p].cards[1])
                   /\ cards' = cards \cup {r}
      ]_vars

\* C24: the list asave_cards returns is as long as its input, element i
\* has card i's field values and a database_id, and that database_id is the
\* id of a row holding card i's field values (for a database_id the list
\* returns once).
C24_SavedCardsReturned ==
    \A p \in Procs :
        LET f == proc[p]
        IN  ( f.op = "save_cards" /\ f.pc = "done" /\ f.ret.kind = "return" )
            => /\ Len(f.ret.value) = Len(f.cards)
               /\ \A i \in DOMAIN f.cards :
                     /\ "database_id" \in DOMAIN f.ret.value[i]
                     /\ HoldsCard(f.ret.value[i], f.cards[i])
                     /\ Carrying(f.ret.value, f.ret.value[i].database_id) = {i}
                           => \E r \in cards :
                                 /\ r.id = f.ret.value[i].database_id
                                 /\ HoldsCard(r, f.cards[i])

\* C25: aload_cards(context), its read not failing, returns one card for
\* every row of the context, holding the row's values, and none for a row
\* of another context, in strictly ascending database_id order.
C25_LoadCardsOfContext ==
    \A p \in Procs :
        LET f == proc[p]
        IN  ( f.op = "load_cards" /\ f.pc = "done" /\ ~f.fault )
            => /\ f.ret.kind = "return"
               /\ \A r \in cards :
                     r.context = f.context
                     => \E i \in DOMAIN f.ret.value :
                           /\ f.ret.value[i].database_id = r.id
                           /\ HoldsCard(r, f.ret.value[i])
               /\ \A i \in DOMAIN f.ret.value :
                     \E r \in cards :
                         r.id = f.ret.value[i].database_id /\ r.context = f.context
               /\ \A i, j \in DOMAIN f.ret.value :
                     i < j => f.ret.value[i].database_id < f.ret.value[j].database_id

\* aload_cards has returned the two cards of a context, the first not
\* evaluated and the second liked.
C25_Witness ==
    \E p \in Procs :
        /\ proc[p].op = "load_cards" /\ proc[p].pc = "done" /\ ~proc[p].fault
        /\ Len(proc[p].ret.value) = 2
        /\ \E r \in cards : r.id = 2 /\ r.evaluation = "liked"
        /\ \E r \in cards : r.id = 1 /\ r.evaluation = "not_evaluated"

C26_LoadFeedbackOfIds ==
    \A p \in Procs :
        LET f == proc[p]
            ids == Range(f.database_ids)
        IN  ( f.op = "load" /\ f.pc = "done" /\ ~f.fault )
            => /\ f.ret.kind = "return"
               /\ \A d \in ids :
                     Cardinality(EntriesOf(f.ret.value, d))
                         = Cardinality(RowsOf(feedback, d))
               /\ \A k \in DOMAIN f.ret.value :
                     /\ f.ret.value[k].database_id \in ids
                     /\ \E r \in RowsOf(feedback, f.ret.value[k].database_id) :
                           Holds(r, f.ret.value[k])
               /\ ids = {} => f.ret.value = <<>>

\* C27: round trip.  Once asave_anki_feedback has returned for a list of
\* feedback objects with distinct database_ids, what aload_anki_feedback
\* reads for those ids is the objects of the list, equal in every field.
C27_RoundTrip ==
    \A p \in Procs :
        LET f == proc[p]
        IN  ( /\ f.op = "upsert" /\ f.pc = "done" /\ f.ret.kind = "return"
              /\ Cardinality(BatchIds(f.feedback_list)) = Len(f.feedback_list) )
            => Loaded(BatchIds(f.feedback_list)) = Range(f.feedback_list)

\* C28: a read of the card store (aload_cards, aload_anki_feedback,
\* aget_contexts) during which the storage layer failed returns the empty
\* list, and no read raises.
C28_ReadsDegradeToEmpty ==
    \A p \in Procs :
        LET f == proc[p]
        IN  ( f.op \in {"load_cards", "load", "get_contexts"} /\ f.pc = "done" )
            => /\ f.ret.kind = "return"
               /\ f.fault => f.ret.value = <<>>

\* C29: a write of the cards table (asave_cards, adelete_context,
\* aclear_all_cards) during which the storage layer failed raises.
C29_WritesPropagate ==
    \A p \in Procs :
        LET f == proc[p]
        IN  ( /\ f.op \in {"save_cards", "delete_context", "clear_all_cards"}
              /\ f.pc = "done" /\ f.fault )
            => f.ret.kind = "raise"

\* C30: asave_anki_feedback called with the empty list returns in that
\* step, raising nothing, with both tables as they were.
C30_EmptyUpsertNoWrite ==
    [][\A p \in Procs :
          ( /\ proc[p].pc = "idle" /\ proc'[p].op = "upsert"
            /\ proc'[p].feedback_list = <<>> )
          => /\ proc'[p].pc = "done"
             /\ proc'[p].ret.kind = "return"
             /\ feedback' = feedback /\ cards' = cards
      ]_vars

\* asave_anki_feedback has returned for the empty list while both tables
\* hold rows.
C30_Witness ==
    \E p \in Procs :
        /\ proc[p].op = "upsert" /\ proc[p].pc = "done"
        /\ proc[p].feedback_list = <<>> /\ proc[p].ret.kind = "return"
        /\ feedback # {} /\ cards # {}

\* C31: a direct fetch looks up each requested id exactly once, and when it
\* returns, its entries are those of the ids whose lookup gave a feedback,
\* in the order of the requested ids, whatever the order in which the
\* lookups completed.
C31_LookupOncePerIdInOrder ==
    \A p \in Procs :
        LET f == proc[p]
            kept == {i \in DOMAIN f.database_ids : f.results[i] # NoFeedback}
            at(k) == CHOOSE i \in kept :
                        Cardinality({j \in kept : j < i}) = k - 1
        IN  ( f.op = "fetch" /\ f.pc = "done" )
            => /\ Len(f.lookups) = Len(f.database_ids)
               /\ \A i \in DOMAIN f.database_ids :
                     Cardinality({k \in DOMAIN f.lookups :
                                     f.lookups[k] = f.database_ids[i]}) = 1
               /\ f.ret.kind = "return"
                     => /\ Len(f.ret.value) = Cardinality(kept)
                        /\ \A k \in DOMAIN f.ret.value :
                              f.ret.value[k].database_id = f.database_ids[at(k)]

\* A direct fetch of ids 2 and 1, whose lookups completed in the opposite
\* order, has returned the entry of id 2 before the entry of id 1.
C31_Witness ==
    \E p \in Procs :
        /\ proc[p].op = "fetch" /\ proc[p].pc = "done"
        /\ proc[p].database_ids = <<2, 1>>
        /\ proc[p].lookups = <<1, 2>>
        /\ proc[p].ret.kind = "return" /\ Len(proc[p].ret.value) = 2
        /\ proc[p].ret.value[1].database_id = 2
        /\ proc[p].ret.value[2].database_id = 1

\* C32: the deck holds a session that can be read, made on first use,
\* closed by close() and managed by `async with`: reading _session,
\* _ensure_session, close, __aenter__ or __aexit__ on a deck succeeds.
C32_SessionLifecycle ==
    \A p \in Procs :
        ( /\ proc[p].op = "getattr" /\ proc[p].pc = "done"
          /\ proc[p].replies[1] \in SessionNames )
        => proc[p].ret.kind = "return"

\* C33: on a store whose feedback table is empty, as that of a store never
\* initialised is, an asave_anki_feedback of one record that returns leaves
\* the store initialised, and aload_anki_feedback of the record's id then
\* yields that record; ainit_database on an initialised store succeeds and
\* leaves it initialised.
C33_InitOnDemand ==
    [][\A p \in Procs :
          /\ ( /\ proc[p].op = "upsert" /\ proc[p].pc = "commit"
               /\ proc'[p].pc = "done" /\ proc'[p].ret.kind = "return"
               /\ Len(proc[p].feedback_list) = 1
               /\ feedback = {} )
             => /\ initialized'
                /\ { model_validate(r) :
                       r \in { x \in feedback' :
                                 x.database_id
                                    = proc[p].feedback_list[1].database_id } }
                      = { proc[p].feedback_list[1] }
          /\ initialized
               => \A ok \in BOOLEAN :
                     ainit_database(ok) = [ok |-> TRUE, initialized |-> TRUE]
      ]_vars

\* C34: aget_contexts, meeting no storage failure, returns every context
\* that has a row in the cards table exactly once, no other context, and
\* the contexts in ascending order.
C34_ContextsDistinctSorted ==
    \A p \in Procs :
        LET f == proc[p]
        IN  ( f.op = "get_contexts" /\ f.pc = "done" /\ ~f.fault )
            => /\ f.ret.kind = "return"
               /\ \A c \in Contexts :
                     Cardinality({k \in DOMAIN f.ret.value : f.ret.value[k] = c})
                         = IF \E r \in cards : r.context = c THEN 1 ELSE 0
               /\ \A k \in DOMAIN f.ret.value : f.ret.value[k] \in Contexts
               /\ \A k, l \in DOMAIN f.ret.value :
                     ( f.ret.value[k] = "doc2" /\ f.ret.value[l] = "doc1" )
                         => l < k

\* aget_contexts has returned doc1 before doc2 although the row of doc2 has
\* the smaller id.
C34_Witness ==
    \E p \in Procs :
        /\ proc[p].op = "get_contexts" /\ proc[p].pc = "done"
        /\ proc[p].ret = Returned(<<"doc1", "doc2">>)
        /\ \E r1, r2 \in cards :
              r1.context = "doc2" /\ r2.context = "doc1" /\ r1.id < r2.id

\* C35: every entry a direct fetch or lookup of the deck returns has a
\* flag of 0 or more, also when the cards of the note carry negative flags
\* or flags int() rejects.
C35_FlagNonNegative ==
    \A p \in Procs :
        LET f == proc[p]
        IN  /\ ( f.op = "fetch" /\ f.pc = "done" /\ f.ret.kind = "return" )
                => \A k \in DOMAIN f.ret.value : f.ret.value[k].flag >= 0
            /\ ( f.op = "lookup" /\ f.pc = "done" /\ f.ret.kind = "return" )
                => f.ret.value.flag >= 0

\* A direct fetch has returned an entry with flag 0 for a note all of whose
\* cards carry a negative flag, the last one the largest.
C35_Witness ==
    \E p \in Procs :
        /\ proc[p].op = "fetch" /\ proc[p].pc = "done"
        /\ proc[p].ret.kind = "return" /\ Len(proc[p].ret.value) = 1
        /\ Len(proc[p].replies) = 1
        /\ Len(proc[p].replies[1].cards) = 2
        /\ \A i \in 1..2 :
              /\ "flags" \in DOMAIN proc[p].replies[1].cards[i]
              /\ "int" \in DOMAIN proc[p].replies[1].cards[i].flags
              /\ proc[p].replies[1].cards[i].flags.int < 0
        /\ proc[p].ret.value[1].flag = 0

\* C36: in a sync, the ids asked about are database_ids of the cards loaded
\* for the context, every entry the deck returned carries one of these ids,
\* no two entries carry the same, and every feedback row the sync's commit
\* writes or changes has the database_id of one of the loaded cards.
C36_FeedbackIdsFromLoadedCards ==
    [][\A p \in Procs :
          LET f == proc'[p]
              loaded_ids == {f.loaded[i].database_id : i \in WithId(f.loaded)}
          IN  f.op = "sync"
              => /\ Range(f.database_ids) \subseteq loaded_ids
                 /\ \A k \in DOMAIN f.feedback_list :
                       /\ f.feedback_list[k].database_id \in Range(f.database_ids)
                       /\ \A l \in DOMAIN f.feedback_list :
                             f.feedback_list[k].database_id
                                = f.feedback_list[l].database_id => k = l
                 /\ ( proc[p].pc = "commit" /\ f.pc = "done" )
                       => \A r \in feedback' \ feedback :
                             r.database_id \in loaded_ids
      ]_vars

\* A sync that loaded two cards, of which the deck resolved the second
\* only, has returned 1 and the table holds the row of the second card.
C36_Witness ==
    \E p \in Procs :
        /\ proc[p].op = "sync" /\ proc[p].pc = "done"
        /\ proc[p].ret = Returned(1)
        /\ Len(proc[p].loaded) = 2 /\ Len(proc[p].feedback_list) = 1
        /\ proc[p].feedback_list[1].database_id = proc[p].loaded[2].database_id
        /\ \E r \in feedback :
              r.database_id = proc[p].loaded[2].database_id

\* C37: no step of an asave_anki_feedback or of a sync changes a card row;
\* a feedback row whose database_id is not in the list being saved stays as
\* it is, and every row written or changed has a database_id of the list;
\* a sync of a context leaves the feedback rows of the cards of the other
\* contexts as they are.
C37_UpsertFrame ==
    [][\A p \in Procs :
          LET f == proc[p]
              ids == BatchIds(f.feedback_list)
          IN  ( /\ proc'[p] # f
                /\ \/ f.op \in {"upsert", "sync"}
                   \/ proc'[p].op \in {"upsert", "sync"} )
              => /\ cards' = cards
                 /\ \A r \in feedback : r.database_id \notin ids => r \in feedback'
                 /\ \A r \in feedback' \ feedback : r.database_id \in ids
                 /\ f.op = "sync"
                       => \A r \in feedback :
                             ( \E c \in cards : /\ c.id = r.database_id
                                                /\ c.context # f.context )
                                 => r \in feedback'
      ]_vars

\* A sync of doc1 has returned 1 and written the row of its card while the
\* table holds the row of a card of doc2.
C37_Witness ==
    \E p \in Procs :
        /\ proc[p].op = "sync" /\ proc[p].pc = "done"
        /\ proc[p].context = "doc1" /\ proc[p].ret = Returned(1)
        /\ \E r \in feedback :
              r.database_id = proc[p].feedback_list[1].database_id
        /\ \E r \in feedback, c \in cards :
              c.id = r.database_id /\ c.context = "doc2"

\* C38: no step removes a feedback row or changes its keys, and a row's
\* values change only in the commit of a sync whose fetched list holds an
\* entry of the row's database_id, to the values of that entry: the row
\* outlives syncs in which its card does not resolve, failing syncs,
\* adelete_context and aclear_all_cards.
C38_FeedbackRowsStay ==
    [][\A r \in feedback :
          \E r2 \in feedback' :
              /\ r2.id = r.id /\ r2.database_id = r.database_id
              /\ \/ r2 = r
                 \/ \E p \in Procs :
                       /\ proc[p].op = "sync" /\ proc[p].pc = "commit"
                       /\ proc'[p].pc = "done"
                       /\ \E k \in DOMAIN proc[p].feedback_list :
                             /\ proc[p].feedback_list[k].database_id
                                   = r.database_id
                             /\ Holds(r2, proc[p].feedback_list[k])
      ]_vars

\* adelete_context has removed the last card while the feedback row synced
\* for it is still in the table.
C38_Witness ==
    \E p \in Procs :
        /\ proc[p].op = "delete_context" /\ proc[p].pc = "done"
        /\ ~proc[p].fault
        /\ cards = {} /\ feedback # {}

\* C39: a card row with a new id is never inserted while the feedback
\* table holds a row of that id, left there by a sync of a card that was
\* deleted since.
C39_FreshIdHasNoFeedback ==
    [][\A id \in IdsOf(cards') \ IdsOf(cards) : RowsOf(feedback', id) = {}
      ]_vars

====
